---- MODULE Spec2Model ----
(***************************************************************************)
(* Model of simply-accounting: the double-entry ledger of                  *)
(* app/models/accounting.py (Account, Transaction, TransactionEntry), the  *)
(* stock ledger of app/models/inventory.py (InventoryItem,                 *)
(* StockAdjustment), purchase receiving of app/models/purchase.py          *)
(* (PurchaseOrder, PurchaseOrderItem, GoodsReceipt) and sale settlement of *)
(* app/models/sale.py (Sale, SaleItem, SalePayment).                       *)
(*                                                                         *)
(* Amounts are counted in units of 1/128 of the currency unit: such values *)
(* are exact both as Decimal and as binary float, so float() and the       *)
(* float arithmetic of the code are exact on them.  One cent is 1.28       *)
(* units, so an amount of one unit is below the cent.  The handlers work   *)
(* on the values the objects hold: Numeric(15, 2) rounds only when a row   *)
(* is written, and add_entry and post read the unrounded attributes.       *)
(***************************************************************************)
EXTENDS Integers, Sequences, FiniteSets, TLC

\* ------------------------------------------------------------------ bounds
MaxOpen == 1
MaxTxn == 3
MaxEntries == 2
MaxLedgerEntries == 4
MaxReconciled == 1
MaxAmount == 1
MaxBalance == 1
MaxQuantity == 1
MaxCost == 2
MaxStock == 2
MaxOrdered == 2
MaxLines == 1
MaxReceipts == 2
MaxAdjustmentItems == 1
MaxReceiptItems == 2
MaxPurchased == 4
MaxWorkers == 3
MaxSaleQuantity == 2
MaxPayment == 3
MaxPayments == 2
InitialStock == 1

\* ------------------------------------------------------- program constants
UnitsPerCurrency == 128
NoId == 0
NoUser == 0
NoSuchAccount == 3

Accounts == {1, 2}
AccountIds == Accounts \cup {NoSuchAccount}
Users == {1}
Amounts == (0 - MaxAmount) .. MaxAmount
Reasons == {"error"}
NoReason == "none"

AccountType == {"asset", "liability", "equity", "revenue", "expense"}

\* The charts of accounts the ledger is started with: a debit account beside
\* a credit account, in either order.
Charts == {<<"asset", "liability">>, <<"equity", "expense">>}

VARIABLES account_type, opening_balance, current_balance, transactions, result

ledgerVars == <<account_type, opening_balance, current_balance, transactions, result>>

\* The stock, purchasing and sale side of the program.
\*   inventory       InventoryItem rows of the store, by product id
\*   adjustment      the StockAdjustment document and its items
\*   purchase_order  the PurchaseOrder: status, totals, ids of its po_items
\*   po_lines        every PurchaseOrderItem object created, by id
\*   receipts        the GoodsReceipt documents and their receipt_items
\*   sale            the Sale: status, sale_items, payments, totals
\*   customer        the Customer linked to the sale
\*   store           the Store the rows belong to
\*   call            the last call made on this side and how it ended
\*   supplier        the Supplier of the purchase order
\*   workers         the requests in flight, each with the row it loaded
VARIABLES inventory, adjustment, purchase_order, po_lines, receipts,
          sale, customer, store, call, supplier, workers

stockVars == <<inventory, adjustment, purchase_order, po_lines, receipts,
               sale, customer, store, call, supplier, workers>>

\* The chart of accounts and the posting requests in flight.
\*   accounts        the Account rows' flags, parent and deletion marks
\*   posters         the post requests in flight, each with the rows it loaded
VARIABLES accounts, posters

chartVars == <<accounts, posters>>

vars == <<ledgerVars, stockVars, chartVars>>

\* No account row is followed and no post request is in flight.
ChartIdle ==
    /\ accounts = <<>>
    /\ posters = <<>>

\* No stock, purchasing or sale object exists.
StockIdle ==
    /\ inventory = <<>>
    /\ adjustment = <<>>
    /\ purchase_order = <<>>
    /\ po_lines = <<>>
    /\ receipts = <<>>
    /\ sale = <<>>
    /\ customer = <<>>
    /\ store = <<>>
    /\ call = <<>>
    /\ supplier = <<>>
    /\ workers = <<>>

\* ----------------------------------------------------------------- helpers
Abs(x) == IF x < 0 THEN 0 - x ELSE x

\* float(x) on a multiple of 2^-7 of small magnitude: exact.
ToFloat(x) == x

RECURSIVE SumDebit(_)
SumDebit(entries) ==
    IF entries = <<>> THEN 0
    ELSE Head(entries).debit_amount + SumDebit(Tail(entries))

RECURSIVE SumCredit(_)
SumCredit(entries) ==
    IF entries = <<>> THEN 0
    ELSE Head(entries).credit_amount + SumCredit(Tail(entries))

\* ----------------------------------------------------------------- Account
is_debit_account(type) == type \in {"asset", "expense"}

is_credit_account(type) == type \in {"liability", "equity", "revenue"}

\* Account.update_balance: the new balance of an account of the given type.
update_balance(type, balance, amount, is_debit) ==
    IF is_debit_account(type)
    THEN IF is_debit THEN balance + amount ELSE balance - amount
    ELSE IF is_debit THEN balance - amount ELSE balance + amount

\* -------------------------------------------------------- TransactionEntry
TransactionEntry(account_id, debit_amount, credit_amount) ==
    [account_id |-> account_id,
     debit_amount |-> debit_amount,
     credit_amount |-> credit_amount,
     is_reconciled |-> FALSE]

\* ------------------------------------------------------------- Transaction
\* The declarative constructor: the columns' defaults, and the status the
\* caller passed.
Transaction(status, posted_by_user_id, notes) ==
    [status |-> status,
     is_reconciled |-> FALSE,
     total_debit |-> 0,
     total_credit |-> 0,
     posted_by_user_id |-> posted_by_user_id,
     reversed_by_transaction_id |-> NoId,
     reversal_reason |-> NoReason,
     notes |-> notes,
     entries |-> <<>>]

\* Column default of Transaction.status, applied when none is passed.
DefaultStatus == "posted"

\* The primary key of an object that no INSERT has stored yet: None.
TransientId == NoId

\* The status check of post: anything but a draft is refused.
NotDraftMutant(txn) == FALSE

NotDraft(txn) == txn.status # "draft"

is_balanced(txn) ==
    Abs(txn.total_debit - txn.total_credit) * 100 < UnitsPerCurrency

can_be_reversed(txn) ==
    /\ txn.status = "posted"
    /\ txn.reversed_by_transaction_id = NoId
    /\ ~txn.is_reconciled

calculate_totals(txn) ==
    [txn EXCEPT !.total_debit = SumDebit(txn.entries),
                !.total_credit = SumCredit(txn.entries)]

add_entry(txn, account_id, debit_amount, credit_amount) ==
    calculate_totals(
        [txn EXCEPT !.entries =
            Append(txn.entries,
                   TransactionEntry(account_id, debit_amount, credit_amount))])

\* One pass of the loop of post over one entry: the balances after it, and
\* whether the entry's account could be resolved (entry.account is None for
\* an account_id that names no account, and the call on it raises).
PostEntry(bal, entry) ==
    LET a == entry.account_id
        hit == entry.debit_amount > 0 \/ entry.credit_amount > 0
        b1 == IF entry.debit_amount > 0
              THEN update_balance(account_type[a], bal[a],
                                  ToFloat(entry.debit_amount), TRUE)
              ELSE bal[a]
        b2 == IF entry.credit_amount > 0
              THEN update_balance(account_type[a], b1,
                                  ToFloat(entry.credit_amount), FALSE)
              ELSE b1
    IN  IF ~hit THEN [bal |-> bal, ok |-> TRUE]
        ELSE IF a \notin Accounts THEN [bal |-> bal, ok |-> FALSE]
        ELSE [bal |-> [bal EXCEPT ![a] = b2], ok |-> TRUE]

\* The loop of post: stops at the first entry that raises.
RECURSIVE PostEntries(_, _)
PostEntries(bal, entries) ==
    IF entries = <<>> THEN [bal |-> bal, ok |-> TRUE]
    ELSE LET r == PostEntry(bal, Head(entries))
         IN  IF r.ok THEN PostEntries(r.bal, Tail(entries)) ELSE r

\* The loop of reverse: one add_entry per entry, debit and credit swapped.
RECURSIVE ReversalEntries(_, _)
ReversalEntries(reversal, entries) ==
    IF entries = <<>> THEN reversal
    ELSE ReversalEntries(
            add_entry(reversal,
                      Head(entries).account_id,
                      ToFloat(Head(entries).credit_amount),
                      ToFloat(Head(entries).debit_amount)),
            Tail(entries))

TotalEntries ==
    LET RECURSIVE Count(_)
        Count(i) == IF i = 0 THEN 0
                    ELSE Len(transactions[i].entries) + Count(i - 1)
    IN  Count(Len(transactions))

NumReconciled ==
    LET RECURSIVE Count(_)
        Count(i) ==
            IF i = 0 THEN 0
            ELSE Cardinality({k \in 1..Len(transactions[i].entries) :
                                 transactions[i].entries[k].is_reconciled})
                 + Count(i - 1)
    IN  Count(Len(transactions))

NumOpened ==
    Cardinality({i \in 1..Len(transactions) : transactions[i].notes = NoId})

\* The balances the model follows: a post that raises part-way can be
\* repeated without end, each time adding to the balances.
InBounds(bal) == \A a \in Accounts : Abs(bal[a]) <= MaxBalance

\* result: the last call of post or reverse, the transaction it was made on
\* and how it ended ("ok", or what it raised).  The handlers that cannot
\* raise leave NoCall.
Outcome(op, txn, outcome) == [op |-> op, txn |-> txn, outcome |-> outcome]

NoCall == Outcome("none", NoId, "ok")

\* ------------------------------------------------------------------- Init
LedgerInit ==
    /\ account_type \in {[a \in Accounts |-> ch[a]] : ch \in Charts}
    /\ opening_balance = [a \in Accounts |-> 0]
    /\ current_balance = [a \in Accounts |-> 0]
    /\ transactions = <<>>
    /\ result = NoCall
    /\ StockIdle
    /\ ChartIdle

\* ---------------------------------------------------------------- actions
\* A caller opens a journal entry: Transaction(status="draft").
Open ==
    /\ NumOpened < MaxOpen
    /\ Len(transactions) < MaxTxn
    /\ transactions' = Append(transactions, Transaction("draft", NoUser, NoId))
    /\ result' = NoCall
    /\ UNCHANGED <<stockVars, chartVars, account_type, opening_balance, current_balance>>

AddEntry(t, account_id, debit_amount, credit_amount) ==
    /\ TotalEntries < MaxEntries
    /\ transactions' =
          [transactions EXCEPT ![t] =
              add_entry(transactions[t], account_id, debit_amount, credit_amount)]
    /\ result' = NoCall
    /\ UNCHANGED <<stockVars, chartVars, account_type, opening_balance, current_balance>>

Post(t, user_id) ==
    LET txn == transactions[t]
        r == PostEntries(current_balance, txn.entries)
    IN  IF NotDraft(txn)
        THEN /\ result' = Outcome("post", t, "NotDraft")
             /\ UNCHANGED <<stockVars, chartVars, account_type, opening_balance, current_balance,
                            transactions>>
        ELSE IF ~is_balanced(txn)
        THEN /\ result' = Outcome("post", t, "Unbalanced")
             /\ UNCHANGED <<stockVars, chartVars, account_type, opening_balance, current_balance,
                            transactions>>
        ELSE IF ~r.ok
        THEN /\ InBounds(r.bal)
             /\ current_balance' = r.bal
             /\ result' = Outcome("post", t, "AttributeError")
             /\ UNCHANGED <<stockVars, chartVars, account_type, opening_balance, transactions>>
        ELSE /\ InBounds(r.bal)
             /\ current_balance' = r.bal
             /\ transactions' =
                   [transactions EXCEPT ![t].status = "posted",
                                        ![t].posted_by_user_id = user_id]
             /\ result' = Outcome("post", t, "ok")
             /\ UNCHANGED <<stockVars, chartVars, account_type, opening_balance>>

Reverse(t, reason, user_id) ==
    LET txn == transactions[t]
        reversal == ReversalEntries(Transaction(DefaultStatus, user_id, t),
                                    txn.entries)
    IN  IF ~can_be_reversed(txn)
        THEN /\ result' = Outcome("reverse", t, "CannotReverse")
             /\ UNCHANGED <<stockVars, chartVars, account_type, opening_balance, current_balance,
                            transactions>>
        ELSE /\ Len(transactions) < MaxTxn
             /\ TotalEntries + Len(txn.entries) <= MaxLedgerEntries
             /\ transactions' =
                   Append([transactions EXCEPT
                              ![t].reversed_by_transaction_id = TransientId,
                              ![t].reversal_reason = reason],
                          reversal)
             /\ result' = Outcome("reverse", t, "ok")
             /\ UNCHANGED <<stockVars, chartVars, account_type, opening_balance, current_balance>>

Reconcile(t, i) ==
    /\ NumReconciled < MaxReconciled
    /\ transactions' = [transactions EXCEPT ![t].entries[i].is_reconciled = TRUE]
    /\ result' = NoCall
    /\ UNCHANGED <<stockVars, chartVars, account_type, opening_balance, current_balance>>

Unreconcile(t, i) ==
    /\ transactions' = [transactions EXCEPT ![t].entries[i].is_reconciled = FALSE]
    /\ result' = NoCall
    /\ UNCHANGED <<stockVars, chartVars, account_type, opening_balance, current_balance>>

LedgerNext ==
    \/ Open
    \/ \E t \in 1..Len(transactions), a \in AccountIds, d \in Amounts, c \in Amounts :
          AddEntry(t, a, d, c)
    \/ \E t \in 1..Len(transactions), u \in Users : Post(t, u)
    \/ \E t \in 1..Len(transactions), r \in Reasons, u \in Users : Reverse(t, r, u)
    \/ \E t \in 1..Len(transactions) :
          \E i \in 1..Len(transactions[t].entries) : Reconcile(t, i)
    \/ \E t \in 1..Len(transactions) :
          \E i \in 1..Len(transactions[t].entries) : Unreconcile(t, i)

SpecLedger == LedgerInit /\ [][LedgerNext]_vars

\* =================================================================== chart
\* The Account rows of the chart: the flags Account declares, the parent
\* reference, and the marks of BaseModel.
Account(is_system_account, parent_account_id) ==
    [is_system_account |-> is_system_account,
     is_header_account |-> FALSE,
     allow_manual_entries |-> TRUE,
     parent_account_id |-> parent_account_id,
     is_active |-> TRUE,
     is_deleted |-> FALSE]

\* Account.transaction_entries: the entries that reference the account.
transaction_entries(a) ==
    {<<t, i>> \in (1..Len(transactions)) \X (1..MaxLedgerEntries) :
        /\ i <= Len(transactions[t].entries)
        /\ transactions[t].entries[i].account_id = a}

\* Account.child_accounts: the accounts whose parent is the account.
child_accounts(a) == {c \in Accounts : accounts[c].parent_account_id = a}

CanBeDeletedWithChildren(a) ==
    /\ ~accounts[a].is_system_account
    /\ Cardinality(transaction_entries(a)) = 0

can_be_deleted(a) ==
    IF accounts[a].is_system_account THEN FALSE
    ELSE IF Cardinality(transaction_entries(a)) > 0 THEN FALSE
    ELSE IF Cardinality(child_accounts(a)) > 0 THEN FALSE
    ELSE TRUE

soft_delete(row) == [row EXCEPT !.is_deleted = TRUE, !.is_active = FALSE]

restore(row) == [row EXCEPT !.is_deleted = FALSE, !.is_active = TRUE]

\* The accounting service deletes an account: it asks can_be_deleted and
\* soft-deletes the row, or refuses.  The service is not in the source tree.
DeleteAccount(a) ==
    /\ IF can_be_deleted(a)
       THEN /\ accounts' = [accounts EXCEPT ![a] = soft_delete(@)]
            /\ result' = Outcome("delete_account", a, "ok")
       ELSE /\ accounts' = accounts
            /\ result' = Outcome("delete_account", a, "CannotDelete")
    /\ UNCHANGED <<stockVars, posters, account_type, opening_balance,
                   current_balance, transactions>>

RestoreAccount(a) ==
    /\ accounts[a].is_deleted
    /\ accounts' = [accounts EXCEPT ![a] = restore(@)]
    /\ result' = NoCall
    /\ UNCHANGED <<stockVars, posters, account_type, opening_balance,
                   current_balance, transactions>>

\* A chart of two accounts, each a system account or not, the second a
\* child of the first or a root, and no transaction.
ChartInit ==
    /\ account_type \in {[a \in Accounts |-> ch[a]] : ch \in Charts}
    /\ accounts \in
          {[a \in Accounts |->
               Account(sys[a], IF a = 2 THEN parent ELSE NoId)] :
           sys \in [Accounts -> BOOLEAN], parent \in {NoId, 1}}
    /\ posters = <<>>
    /\ opening_balance = [a \in Accounts |-> 0]
    /\ current_balance = [a \in Accounts |-> 0]
    /\ transactions = <<>>
    /\ result = NoCall
    /\ StockIdle

ChartNext ==
    \/ Open
    \/ \E t \in 1..Len(transactions), a \in Accounts, d, c \in 0..MaxAmount :
          AddEntry(t, a, d, c)
    \/ \E t \in 1..Len(transactions), u \in Users : Post(t, u)
    \/ \E a \in Accounts : DeleteAccount(a)
    \/ \E a \in Accounts : RestoreAccount(a)

SpecChart == ChartInit /\ [][ChartNext]_vars

\* ================================================================= posters
\* Post requests are served by concurrent workers.  A worker serving a post
\* request loads the transaction and the accounts of its entries into its
\* session, runs Transaction.post on the loaded rows and commits.  The
\* service that loads the rows is not in the source tree: it takes the row
\* locks of the transaction and of its accounts for the length of the
\* request, the per-account serialization the design requires of the
\* storage boundary.
Posters == 1 .. MaxWorkers

IdlePoster ==
    [pc |-> "idle", txn |-> NoId, user_id |-> NoUser,
     row |-> Transaction("draft", NoUser, NoId), bal |-> <<>>, next |-> 1,
     outcome |-> "none"]

\* The accounts the entries of transaction t reference.
EntryAccounts(t) ==
    {transactions[t].entries[i].account_id :
        i \in 1..Len(transactions[t].entries)}

\* Poster w holds the locks of its request: it has loaded and not finished.
InFlight(w) == posters[w].pc \in {"loaded", "checked", "written"}

RowsAreFree(t) ==
    \A w \in Posters :
        InFlight(w) =>
            /\ posters[w].txn # t
            /\ EntryAccounts(posters[w].txn) \cap EntryAccounts(t) = {}

PostNeverRefused(txn) == "ok"

\* The two checks post makes before it touches a balance.
post_refused(txn) ==
    IF NotDraft(txn) THEN "NotDraft"
    ELSE IF ~is_balanced(txn) THEN "Unbalanced"
    ELSE "ok"

\* The request arrives and waits for the rows.
PosterArrive(w, t, user_id) ==
    /\ posters[w].pc = "idle"
    /\ posters' = [posters EXCEPT ![w] =
          [@ EXCEPT !.pc = "waiting", !.txn = t, !.user_id = user_id]]
    /\ UNCHANGED <<ledgerVars, stockVars, accounts>>

\* The rows are locked and loaded.
PosterLoad(w) ==
    /\ posters[w].pc = "waiting"
    /\ RowsAreFree(posters[w].txn)
    /\ posters' = [posters EXCEPT ![w] =
          [@ EXCEPT !.pc = "loaded",
                    !.row = transactions[posters[w].txn],
                    !.bal = current_balance]]
    /\ UNCHANGED <<ledgerVars, stockVars, accounts>>

\* post checks the loaded transaction; a refusal ends the request and gives
\* the rows back.
PosterCheck(w) ==
    /\ posters[w].pc = "loaded"
    /\ LET me == posters[w]
           refusal == post_refused(me.row)
       IN  posters' = [posters EXCEPT ![w] =
              IF refusal # "ok"
              THEN [me EXCEPT !.pc = "done", !.outcome = refusal]
              ELSE [me EXCEPT !.pc = IF Len(me.row.entries) = 0
                                     THEN "written" ELSE "checked"]]
    /\ UNCHANGED <<ledgerVars, stockVars, accounts>>

\* One pass of the loop of post on the loaded rows; an entry that raises
\* ends the request, and the session is rolled back.
PosterWrite(w) ==
    /\ posters[w].pc = "checked"
    /\ LET me == posters[w]
           r == PostEntry(me.bal, me.row.entries[me.next])
       IN  posters' = [posters EXCEPT ![w] =
              IF ~r.ok
              THEN [me EXCEPT !.pc = "done", !.outcome = "AttributeError"]
              ELSE [me EXCEPT !.bal = r.bal,
                             !.next = me.next + 1,
                             !.pc = IF me.next = Len(me.row.entries)
                                    THEN "written" ELSE "checked"]]
    /\ UNCHANGED <<ledgerVars, stockVars, accounts>>

\* post marks the transaction posted and the session commits: the rows are
\* stored and given back.
PosterCommit(w) ==
    /\ posters[w].pc = "written"
    /\ LET me == posters[w]
       IN  /\ current_balance' =
                 [a \in Accounts |->
                     IF a \in EntryAccounts(me.txn) THEN me.bal[a]
                     ELSE current_balance[a]]
           /\ transactions' =
                 [transactions EXCEPT
                     ![me.txn] = [me.row EXCEPT
                                     !.status = "posted",
                                     !.posted_by_user_id = me.user_id]]
           /\ result' = Outcome("post", me.txn, "ok")
    /\ posters' = [posters EXCEPT ![w] =
          [@ EXCEPT !.pc = "done", !.outcome = "ok"]]
    /\ UNCHANGED <<stockVars, accounts, account_type, opening_balance>>

\* A draft of two entries: amount debited to one account and credited to
\* the other.
Draft(debit_account, credit_account, amount) ==
    add_entry(add_entry(Transaction("draft", NoUser, NoId),
                        debit_account, amount, 0),
              credit_account, 0, amount)

\* Two balanced drafts that touch the same accounts, and every poster idle.
PostersInit ==
    /\ account_type \in {[a \in Accounts |-> ch[a]] : ch \in Charts}
    /\ accounts = [a \in Accounts |-> Account(FALSE, NoId)]
    /\ opening_balance = [a \in Accounts |-> 0]
    /\ current_balance = [a \in Accounts |-> 0]
    /\ transactions \in
          {<<Draft(1, 2, m), Draft(d, 3 - d, n)>> :
              m \in 1..MaxAmount, n \in 1..MaxAmount, d \in Accounts}
    /\ posters = [w \in Posters |-> IdlePoster]
    /\ result = NoCall
    /\ StockIdle

PostersNext ==
    \/ \E w \in Posters, t \in 1..Len(transactions), u \in Users :
          PosterArrive(w, t, u)
    \/ \E w \in Posters : PosterLoad(w)
    \/ \E w \in Posters : PosterCheck(w)
    \/ \E w \in Posters : PosterWrite(w)
    \/ \E w \in Posters : PosterCommit(w)

SpecPosters == PostersInit /\ [][PostersNext]_vars




\* ==================================================== stock and purchasing
\* Quantities are whole units and costs whole cost units.  A unit cost is
\* kept as the exact quotient num/den in lowest terms: the code divides
\* floats, and the quotient it stores is the nearest float to this value.
\* NoCost is None.
RECURSIVE GCD(_, _)
GCD(a, b) == IF b = 0 THEN a ELSE GCD(b, a % b)

Quotient(num, den) ==
    LET g == GCD(Abs(num), den)
    IN  [num |-> num \div g, den |-> den \div g]

NoCost == [num |-> 0, den |-> 0]

Products == {1}
Quantities == (0 - 1) .. MaxQuantity
Costs == 1 .. MaxCost

\* The ledger side is not in use.
LedgerIdle ==
    /\ account_type = <<>>
    /\ opening_balance = <<>>
    /\ current_balance = <<>>
    /\ transactions = <<>>
    /\ result = NoCall
    /\ ChartIdle

\* call: the operation last called, what it was called on, the quantity
\* passed and how it ended ("ok", or what it raised).
\* movements: the StockMovement objects the call returned, none when it
\* raised or returns nothing.
Call(op, target, quantity, outcome) ==
    [op |-> op, target |-> target, quantity |-> quantity, outcome |-> outcome,
     movements |-> <<>>]

\* The call returned these movements.
Returning(c, movements) == [c EXCEPT !.movements = movements]

\* ----------------------------------------------------------- InventoryItem
\* A new row: the column defaults.
InventoryItem ==
    [quantity_on_hand |-> 0, quantity_reserved |-> 0, quantity_available |-> 0,
     unit_cost |-> NoCost, last_cost |-> NoCost]

StaleAvailable(item) == item

update_available_quantity(item) ==
    [item EXCEPT !.quantity_available =
                    item.quantity_on_hand - item.quantity_reserved]

ReserveFromOnHand(item, quantity) ==
    update_available_quantity([item EXCEPT !.quantity_on_hand = @ - quantity])

\* reserve_quantity past its guard.
reserve_quantity(item, quantity) ==
    update_available_quantity(
        [item EXCEPT !.quantity_reserved = @ + quantity])

\* release_reservation past its guard.
release_reservation(item, quantity) ==
    update_available_quantity(
        [item EXCEPT !.quantity_reserved = @ - quantity])

adjust_quantity(item, new_quantity) ==
    update_available_quantity([item EXCEPT !.quantity_on_hand = new_quantity])

update_cost(item, new_cost, quantity) ==
    LET total_value == item.quantity_on_hand * item.unit_cost.num
                       + quantity * new_cost * item.unit_cost.den
        total_quantity == item.quantity_on_hand + quantity
        cost == IF item.unit_cost = NoCost \/ item.quantity_on_hand = 0
                THEN Quotient(new_cost, 1)
                ELSE IF total_quantity > 0
                THEN Quotient(total_value, item.unit_cost.den * total_quantity)
                ELSE item.unit_cost
    IN  [item EXCEPT !.unit_cost = cost, !.last_cost = Quotient(new_cost, 1)]

\* ----------------------------------------------------------- StockMovement
\* quantity_before and quantity_after are nullable columns: a snapshot is
\* <<q>>, and <<>> where the constructor was not given one.
NoSnapshot == <<>>
Snapshot(quantity) == <<quantity>>

StockMovement(movement_type, inventory_item, quantity, unit_cost, quantity_before, quantity_after) ==
    [movement_type |-> movement_type, inventory_item |-> inventory_item,
     quantity |-> quantity, unit_cost |-> unit_cost,
     quantity_before |-> quantity_before, quantity_after |-> quantity_after]

\* The movement adjust_quantity returns for row p, item being the row as
\* the call found it.
adjust_quantity_movement(p, item, new_quantity) ==
    StockMovement("adjustment", p, new_quantity - item.quantity_on_hand,
                  item.unit_cost, NoSnapshot, NoSnapshot)

\* --------------------------------------------------------- StockAdjustment
StockAdjustment == [status |-> "draft", items |-> <<>>]

StockAdjustmentItem(inventory_item, current_quantity, new_quantity) ==
    [inventory_item |-> inventory_item, current_quantity |-> current_quantity,
     new_quantity |-> new_quantity]

ApprovableWithoutLines(adj) == adj.status = "draft"

can_be_approved(adj) == adj.status = "draft" /\ Len(adj.items) > 0

CanBeReapplied(adj) == adj.status \in {"approved", "applied"}

can_be_applied(adj) == adj.status = "approved"

\* The loop of StockAdjustment.apply over the items.
RECURSIVE ApplyItems(_, _)
ApplyItems(inv, items) ==
    IF items = <<>> THEN inv
    ELSE LET item == Head(items)
             row == inv[item.inventory_item]
         IN  ApplyItems(
                 [inv EXCEPT ![item.inventory_item] =
                     update_available_quantity(
                         [row EXCEPT !.quantity_on_hand = item.new_quantity])],
                 Tail(items))

quantity_difference(item) == item.new_quantity - item.current_quantity

\* The movements StockAdjustment.apply returns, one for each item.
RECURSIVE ApplyMovements(_, _)
ApplyMovements(inv, items) ==
    IF items = <<>> THEN <<>>
    ELSE LET item == Head(items)
             row == inv[item.inventory_item]
             applied == update_available_quantity(
                            [row EXCEPT !.quantity_on_hand = item.new_quantity])
         IN  <<StockMovement("adjustment", item.inventory_item,
                             quantity_difference(item), row.unit_cost,
                             Snapshot(row.quantity_on_hand),
                             Snapshot(item.new_quantity))>>
             \o ApplyMovements([inv EXCEPT ![item.inventory_item] = applied],
                               Tail(items))

\* ------------------------------------------------------- PurchaseOrderItem
calculate_line_total(line) ==
    [line EXCEPT !.line_total = ToFloat(line.quantity_ordered)
                                * ToFloat(line.unit_cost)]

PurchaseOrderItem(product_id, quantity_ordered, unit_cost) ==
    [product_id |-> product_id, quantity_ordered |-> quantity_ordered,
     quantity_received |-> 0, unit_cost |-> unit_cost, line_total |-> 0]

quantity_outstanding(line) == line.quantity_ordered - line.quantity_received

\* receive_quantity past its guard.
receive_quantity(line, quantity) ==
    [line EXCEPT !.quantity_received = @ + quantity]

\* ----------------------------------------------------------- PurchaseOrder
\* A new order: the column defaults; no tax rate, discount or shipping cost.
PurchaseOrder ==
    [status |-> "draft", po_items |-> {}, subtotal |-> 0, total_amount |-> 0]

RECURSIVE SumLineTotal(_, _)
SumLineTotal(lines, ids) ==
    IF ids = {} THEN 0
    ELSE LET id == CHOOSE i \in ids : TRUE
         IN  lines[id].line_total + SumLineTotal(lines, ids \ {id})

is_fully_received(po, lines) ==
    ~ \E id \in po.po_items :
         lines[id].quantity_received < lines[id].quantity_ordered

is_partially_received(po, lines) ==
    \E id \in po.po_items : lines[id].quantity_received > 0

po_calculate_totals(po, lines) ==
    LET subtotal == SumLineTotal(lines, po.po_items)
    IN  [po EXCEPT !.subtotal = subtotal, !.total_amount = subtotal]

StatusPartialFirst(po, lines) ==
    IF is_partially_received(po, lines)
    THEN [po EXCEPT !.status = "partially_received"]
    ELSE IF is_fully_received(po, lines) THEN [po EXCEPT !.status = "received"]
    ELSE po

update_status_based_on_receipts(po, lines) ==
    IF is_fully_received(po, lines) THEN [po EXCEPT !.status = "received"]
    ELSE IF is_partially_received(po, lines)
    THEN [po EXCEPT !.status = "partially_received"]
    ELSE po

\* ------------------------------------------------------------ GoodsReceipt
GoodsReceiptItem(po_item, quantity_received, unit_cost) ==
    [po_item |-> po_item, quantity_received |-> quantity_received,
     unit_cost |-> unit_cost]

GoodsReceipt(receipt_items) ==
    [status |-> "draft", receipt_items |-> receipt_items]

\* The InventoryItem of the product in the receipt's store.  The method is a
\* placeholder in the source; this is the lookup its docstring describes.
get_or_create_inventory_item(inv, product_id) == inv[product_id]

\* The loop of complete_receipt over the receipt items: the purchase-order
\* lines and inventory rows it leaves, the movements it built, and whether
\* it raised.
RECURSIVE CompleteItems(_, _, _)
CompleteItems(items, lines, inv) ==
    IF items = <<>>
    THEN [po_lines |-> lines, inventory |-> inv, outcome |-> "ok",
          movements |-> <<>>]
    ELSE LET item == Head(items)
             line == lines[item.po_item]
         IN  IF item.quantity_received > quantity_outstanding(line)
             THEN [po_lines |-> lines, inventory |-> inv,
                   outcome |-> "OverReceive", movements |-> <<>>]
             ELSE
             LET received == [lines EXCEPT ![item.po_item] =
                                 receive_quantity(line, item.quantity_received)]
                 inventory_item ==
                     get_or_create_inventory_item(inv, line.product_id)
                 stocked == update_available_quantity(
                     [inventory_item EXCEPT
                         !.quantity_on_hand = @ + item.quantity_received])
                 costed == update_cost(stocked, ToFloat(item.unit_cost),
                                       ToFloat(item.quantity_received))
                 movement ==
                     StockMovement("purchase", line.product_id,
                                   item.quantity_received,
                                   Quotient(item.unit_cost, 1),
                                   Snapshot(inventory_item.quantity_on_hand),
                                   Snapshot(costed.quantity_on_hand))
                 rest == CompleteItems(Tail(items), received,
                                       [inv EXCEPT ![line.product_id] = costed])
             IN  [rest EXCEPT !.movements = <<movement>> \o @]

\* ---------------------------------------------------------------- Supplier
\* A new row: the column defaults, no order placed yet.
Supplier ==
    [total_purchased |-> 0, current_balance |-> 0,
     first_order_date |-> "None", last_order_date |-> "None"]

supplier_update_purchase_history(s, purchase_amount, purchase_date) ==
    [s EXCEPT !.total_purchased = @ + purchase_amount,
              !.current_balance = @ + purchase_amount,
              !.last_order_date = purchase_date,
              !.first_order_date =
                  IF @ = "None" THEN purchase_date ELSE @]

\* -------------------------------------------------------------- StockInit
NoStockCall == Call("none", 0, 0, "ok")

\* No request is in flight.
NoWorkers == <<>>

\* No sale is being rung up.
SaleIdle ==
    /\ sale = <<>>
    /\ customer = <<>>
    /\ store = <<>>

\* The quantities the model follows: reservations, adjustments and receipts
\* of negative quantities can be repeated without end.
InStock(inv) ==
    \A p \in DOMAIN inv :
        /\ Abs(inv[p].quantity_on_hand) <= MaxStock
        /\ Abs(inv[p].quantity_reserved) <= MaxStock

\* The order the stock side receives against: one line of MaxOrdered units,
\* sent to the supplier.
SentLine == calculate_line_total(PurchaseOrderItem(1, MaxOrdered, 1))

SentOrder ==
    po_calculate_totals(
        [PurchaseOrder EXCEPT !.status = "sent", !.po_items = {1}],
        <<SentLine>>)

StockInit ==
    /\ inventory = [p \in Products |-> InventoryItem]
    /\ adjustment = StockAdjustment
    /\ purchase_order = SentOrder
    /\ po_lines = <<SentLine>>
    /\ receipts = <<>>
    /\ call = NoStockCall
    /\ supplier = Supplier
    /\ workers = NoWorkers
    /\ SaleIdle
    /\ LedgerIdle

\* Purchasing starts with an empty draft order.
PurchaseInit ==
    /\ inventory = [p \in Products |-> InventoryItem]
    /\ adjustment = StockAdjustment
    /\ purchase_order = PurchaseOrder
    /\ po_lines = <<>>
    /\ receipts = <<>>
    /\ call = NoStockCall
    /\ supplier = Supplier
    /\ workers = NoWorkers
    /\ SaleIdle
    /\ LedgerIdle

\* ---------------------------------------------------------- stock actions
Reserve(p, quantity) ==
    IF quantity > inventory[p].quantity_available
    THEN /\ call' = Call("reserve_quantity", p, quantity, "InsufficientAvailable")
         /\ UNCHANGED <<ledgerVars, chartVars, supplier, workers, inventory, adjustment, purchase_order,
                        po_lines, receipts, sale, customer, store>>
    ELSE /\ inventory' =
               [inventory EXCEPT ![p] = reserve_quantity(inventory[p], quantity)]
         /\ InStock(inventory')
         /\ call' = Call("reserve_quantity", p, quantity, "ok")
         /\ UNCHANGED <<ledgerVars, chartVars, supplier, workers, adjustment, purchase_order, po_lines,
                        receipts, sale, customer, store>>

Release(p, quantity) ==
    IF quantity > inventory[p].quantity_reserved
    THEN /\ call' = Call("release_reservation", p, quantity, "OverRelease")
         /\ UNCHANGED <<ledgerVars, chartVars, supplier, workers, inventory, adjustment, purchase_order,
                        po_lines, receipts, sale, customer, store>>
    ELSE /\ inventory' =
               [inventory EXCEPT
                   ![p] = release_reservation(inventory[p], quantity)]
         /\ InStock(inventory')
         /\ call' = Call("release_reservation", p, quantity, "ok")
         /\ UNCHANGED <<ledgerVars, chartVars, supplier, workers, adjustment, purchase_order, po_lines,
                        receipts, sale, customer, store>>

Adjust(p, new_quantity) ==
    /\ inventory' =
          [inventory EXCEPT ![p] = adjust_quantity(inventory[p], new_quantity)]
    /\ call' = Returning(Call("adjust_quantity", p, new_quantity, "ok"),
                          <<adjust_quantity_movement(p, inventory[p],
                                                     new_quantity)>>)
    /\ UNCHANGED <<ledgerVars, chartVars, supplier, workers, adjustment, purchase_order, po_lines, receipts,
                   sale, customer, store>>

\* A caller adds a line to the adjustment: the quantity counted, beside the
\* quantity on hand at the time.
AddAdjustmentItem(p, new_quantity) ==
    /\ adjustment.status = "draft"
    /\ Len(adjustment.items) < MaxAdjustmentItems
    /\ adjustment' =
          [adjustment EXCEPT !.items =
              Append(@, StockAdjustmentItem(p, inventory[p].quantity_on_hand,
                                            new_quantity))]
    /\ call' = NoStockCall
    /\ UNCHANGED <<ledgerVars, chartVars, supplier, workers, inventory, purchase_order, po_lines, receipts,
                   sale, customer, store>>

Approve ==
    IF ~can_be_approved(adjustment)
    THEN /\ call' = Call("approve", 0, 0, "CannotApprove")
         /\ UNCHANGED <<ledgerVars, chartVars, supplier, workers, inventory, adjustment, purchase_order,
                        po_lines, receipts, sale, customer, store>>
    ELSE /\ adjustment' = [adjustment EXCEPT !.status = "approved"]
         /\ call' = Call("approve", 0, 0, "ok")
         /\ UNCHANGED <<ledgerVars, chartVars, supplier, workers, inventory, purchase_order, po_lines,
                        receipts, sale, customer, store>>

Apply ==
    IF ~can_be_applied(adjustment)
    THEN /\ call' = Call("apply", 0, 0, "CannotApply")
         /\ UNCHANGED <<ledgerVars, chartVars, supplier, workers, inventory, adjustment, purchase_order,
                        po_lines, receipts, sale, customer, store>>
    ELSE /\ inventory' = ApplyItems(inventory, adjustment.items)
         /\ adjustment' = [adjustment EXCEPT !.status = "applied"]
         /\ call' = Returning(Call("apply", 0, 0, "ok"),
                               ApplyMovements(inventory, adjustment.items))
         /\ UNCHANGED <<ledgerVars, chartVars, supplier, workers, purchase_order, po_lines, receipts,
                        sale, customer, store>>

\* ------------------------------------------------------- purchase actions
\* PurchaseOrder.add_item: the line of the product if the order has one.
PoAddItem(product_id, quantity, unit_cost) ==
    LET existing == {id \in purchase_order.po_items :
                        po_lines[id].product_id = product_id}
    IN  /\ IF existing # {}
           THEN LET id == CHOOSE i \in existing : TRUE
                IN  /\ Abs(po_lines[id].quantity_ordered + quantity) <= MaxOrdered
                    /\ po_lines' =
                          [po_lines EXCEPT ![id] =
                              calculate_line_total(
                                  [@ EXCEPT !.quantity_ordered = @ + quantity])]
                    /\ purchase_order' =
                          po_calculate_totals(purchase_order, po_lines')
           ELSE /\ Len(po_lines) < MaxLines
                /\ po_lines' =
                      Append(po_lines,
                             calculate_line_total(
                                 PurchaseOrderItem(product_id, quantity,
                                                   unit_cost)))
                /\ purchase_order' =
                      po_calculate_totals(
                          [purchase_order EXCEPT
                              !.po_items = @ \cup {Len(po_lines')}],
                          po_lines')
        /\ call' = NoStockCall
        /\ UNCHANGED <<ledgerVars, chartVars, supplier, workers, inventory, adjustment, receipts,
                       sale, customer, store>>

PoRemoveItem(po_item_id) ==
    /\ purchase_order' =
          po_calculate_totals(
              [purchase_order EXCEPT !.po_items = @ \ {po_item_id}], po_lines)
    /\ call' = NoStockCall
    /\ UNCHANGED <<ledgerVars, chartVars, supplier, workers, inventory, adjustment, po_lines, receipts,
                   sale, customer, store>>

ReceiveQuantity(id, quantity) ==
    IF quantity > quantity_outstanding(po_lines[id])
    THEN /\ call' = Call("receive_quantity", id, quantity, "OverReceive")
         /\ UNCHANGED <<ledgerVars, chartVars, supplier, workers, inventory, adjustment, purchase_order,
                        po_lines, receipts, sale, customer, store>>
    ELSE /\ po_lines' =
               [po_lines EXCEPT ![id] = receive_quantity(po_lines[id], quantity)]
         /\ Abs(po_lines'[id].quantity_received) <= MaxOrdered
         /\ call' = Call("receive_quantity", id, quantity, "ok")
         /\ UNCHANGED <<ledgerVars, chartVars, supplier, workers, inventory, adjustment, purchase_order,
                        receipts, sale, customer, store>>

\* A caller drafts a goods receipt against a line of the order.
DraftReceipt(id, quantity, unit_cost) ==
    /\ Len(receipts) < MaxReceipts
    /\ receipts' =
          Append(receipts,
                 GoodsReceipt(<<GoodsReceiptItem(id, quantity, unit_cost)>>))
    /\ call' = NoStockCall
    /\ UNCHANGED <<ledgerVars, chartVars, supplier, workers, inventory, adjustment, purchase_order, po_lines,
                   sale, customer, store>>

\* A caller adds a further item to a draft goods receipt.
AddReceiptItem(r, id, quantity, unit_cost) ==
    /\ receipts[r].status = "draft"
    /\ Len(receipts[r].receipt_items) < MaxReceiptItems
    /\ receipts' =
          [receipts EXCEPT ![r].receipt_items =
              Append(@, GoodsReceiptItem(id, quantity, unit_cost))]
    /\ call' = NoStockCall
    /\ UNCHANGED <<ledgerVars, chartVars, supplier, workers, inventory, adjustment, purchase_order, po_lines,
                   sale, customer, store>>

CompleteReceipt(r) ==
    LET done == CompleteItems(receipts[r].receipt_items, po_lines, inventory)
    IN  IF receipts[r].status # "draft"
        THEN /\ call' = Call("complete_receipt", r, 0, "NotDraft")
             /\ UNCHANGED <<ledgerVars, chartVars, supplier, workers, inventory, adjustment, purchase_order,
                            po_lines, receipts, sale, customer, store>>
        ELSE IF done.outcome # "ok"
        THEN /\ po_lines' = done.po_lines
             /\ inventory' = done.inventory
             /\ InStock(inventory')
             /\ call' = Call("complete_receipt", r, 0, done.outcome)
             /\ UNCHANGED <<ledgerVars, chartVars, supplier, workers, adjustment, purchase_order, receipts,
                            sale, customer, store>>
        ELSE /\ po_lines' = done.po_lines
             /\ inventory' = done.inventory
             /\ InStock(inventory')
             /\ receipts' = [receipts EXCEPT ![r].status = "completed"]
             /\ purchase_order' =
                   update_status_based_on_receipts(purchase_order, po_lines')
             /\ call' = Returning(Call("complete_receipt", r, 0, "ok"),
                                   done.movements)
             /\ UNCHANGED <<ledgerVars, chartVars, supplier, workers, adjustment, sale, customer, store>>

StockNext ==
    \/ \E p \in Products, q \in Quantities : Reserve(p, q)
    \/ \E p \in Products, q \in Quantities : Release(p, q)
    \/ \E p \in Products, q \in Quantities : Adjust(p, q)
    \/ \E p \in Products, q \in Quantities : AddAdjustmentItem(p, q)
    \/ Approve
    \/ Apply
    \/ \E id \in 1..Len(po_lines), q \in 1..MaxQuantity, c \in Costs :
          DraftReceipt(id, q, c)
    \/ \E r \in 1..Len(receipts) : CompleteReceipt(r)

SpecStock == StockInit /\ [][StockNext]_vars

PurchaseNext ==
    \/ \E p \in Products, q \in Quantities, c \in Costs : PoAddItem(p, q, c)
    \/ \E id \in purchase_order.po_items : PoRemoveItem(id)
    \/ \E id \in 1..Len(po_lines), q \in Quantities : ReceiveQuantity(id, q)
    \/ \E id \in 1..Len(po_lines), q \in 1..MaxQuantity, c \in Costs :
          DraftReceipt(id, q, c)
    \/ \E r \in 1..Len(receipts) : CompleteReceipt(r)
    \/ \E p \in Products, q \in Quantities : Adjust(p, q)

SpecPurchase == PurchaseInit /\ [][PurchaseNext]_vars

\* ------------------------------------------------- purchase-order status
\* PurchaseOrder.approve; the approving user and time are not followed.
PoApprove ==
    IF purchase_order.status # "draft"
    THEN /\ call' = Call("approve", 0, 0, "NotDraft")
         /\ UNCHANGED <<ledgerVars, chartVars, supplier, workers, inventory, adjustment, purchase_order,
                        po_lines, receipts, sale, customer, store>>
    ELSE /\ purchase_order' = [purchase_order EXCEPT !.status = "approved"]
         /\ call' = Call("approve", 0, 0, "ok")
         /\ UNCHANGED <<ledgerVars, chartVars, supplier, workers, inventory, adjustment,
                        po_lines, receipts, sale, customer, store>>

PoSendToSupplier ==
    IF purchase_order.status # "approved"
    THEN /\ call' = Call("send_to_supplier", 0, 0, "NotApproved")
         /\ UNCHANGED <<ledgerVars, chartVars, supplier, workers, inventory, adjustment, purchase_order,
                        po_lines, receipts, sale, customer, store>>
    ELSE /\ purchase_order' = [purchase_order EXCEPT !.status = "sent"]
         /\ call' = Call("send_to_supplier", 0, 0, "ok")
         /\ UNCHANGED <<ledgerVars, chartVars, supplier, workers, inventory, adjustment,
                        po_lines, receipts, sale, customer, store>>

\* PurchaseOrder.cancel; the notes are not followed.
PoCancel ==
    IF purchase_order.status \in {"received", "completed"}
    THEN /\ call' = Call("cancel", 0, 0, "CannotCancel")
         /\ UNCHANGED <<ledgerVars, chartVars, supplier, workers, inventory, adjustment, purchase_order,
                        po_lines, receipts, sale, customer, store>>
    ELSE /\ purchase_order' = [purchase_order EXCEPT !.status = "cancelled"]
         /\ call' = Call("cancel", 0, 0, "ok")
         /\ UNCHANGED <<ledgerVars, chartVars, supplier, workers, inventory, adjustment,
                        po_lines, receipts, sale, customer, store>>

\* PurchaseOrder.complete.  The supplier's totals are followed up to
\* MaxPurchased.
PoComplete ==
    IF ~is_fully_received(purchase_order, po_lines)
    THEN /\ call' = Call("complete", 0, 0, "NotFullyReceived")
         /\ UNCHANGED <<ledgerVars, chartVars, supplier, workers, inventory, adjustment, purchase_order,
                        po_lines, receipts, sale, customer, store>>
    ELSE /\ supplier.total_purchased + purchase_order.total_amount
               <= MaxPurchased
         /\ purchase_order' = [purchase_order EXCEPT !.status = "completed"]
         /\ supplier' =
               supplier_update_purchase_history(
                   supplier, ToFloat(purchase_order.total_amount), "order_date")
         /\ call' = Call("complete", 0, 0, "ok")
         /\ UNCHANGED <<ledgerVars, chartVars, workers, inventory, adjustment,
                        po_lines, receipts, sale, customer, store>>

\* The order desk starts with a draft order of one line of MaxOrdered units.
DraftOrder == [SentOrder EXCEPT !.status = "draft"]

OrderInit ==
    /\ inventory = [p \in Products |-> InventoryItem]
    /\ adjustment = StockAdjustment
    /\ purchase_order = DraftOrder
    /\ po_lines = <<SentLine>>
    /\ receipts = <<>>
    /\ call = NoStockCall
    /\ supplier = Supplier
    /\ workers = NoWorkers
    /\ SaleIdle
    /\ LedgerIdle

OrderNext ==
    \/ PoApprove
    \/ PoSendToSupplier
    \/ PoCancel
    \/ PoComplete
    \/ \E id \in purchase_order.po_items : PoRemoveItem(id)
    \/ \E id \in 1..Len(po_lines), q \in 1..MaxOrdered, c \in Costs :
          DraftReceipt(id, q, c)
    \/ \E r \in 1..Len(receipts), id \in 1..Len(po_lines),
          q \in 1..MaxOrdered, c \in Costs : AddReceiptItem(r, id, q, c)
    \/ \E r \in 1..Len(receipts) : CompleteReceipt(r)

SpecOrder == OrderInit /\ [][OrderNext]_vars

\* ================================================================= workers
\* Requests are served by concurrent workers.  A worker serving a reserve
\* request loads the inventory row into its session, calls reserve_quantity
\* on the loaded row and commits.  The service that loads the row is not in
\* the source tree: it takes the row lock for the length of the request, the
\* per-item serialization the design requires of the storage boundary.
Workers == 1 .. MaxWorkers

IdleWorker ==
    [pc |-> "idle", product_id |-> 0, quantity |-> 0, row |-> InventoryItem,
     outcome |-> "none"]

\* Worker w holds the lock of row p: it has loaded the row and not finished.
HoldsRow(w, p) ==
    /\ workers[w].pc \in {"loaded", "checked", "written"}
    /\ workers[w].product_id = p

RowIsFree(p) == \A w \in Workers : ~HoldsRow(w, p)

ReserveNeverRefused(item, quantity) == FALSE

\* The guard of reserve_quantity.
reserve_refused(item, quantity) == quantity > item.quantity_available

\* The request arrives: the row is locked and loaded.
WorkerLoad(w, p, quantity) ==
    /\ workers[w].pc = "idle"
    /\ RowIsFree(p)
    /\ workers' = [workers EXCEPT ![w] =
          [pc |-> "loaded", product_id |-> p, quantity |-> quantity,
           row |-> inventory[p], outcome |-> "none"]]
    /\ UNCHANGED <<ledgerVars, chartVars, supplier, inventory, adjustment, purchase_order,
                   po_lines, receipts, sale, customer, store, call>>

\* reserve_quantity compares the quantity with the loaded row; a refusal
\* ends the request and gives the row back.
WorkerCheck(w) ==
    /\ workers[w].pc = "loaded"
    /\ workers' = [workers EXCEPT ![w] =
          IF reserve_refused(@.row, @.quantity)
          THEN [@ EXCEPT !.pc = "done", !.outcome = "InsufficientAvailable"]
          ELSE [@ EXCEPT !.pc = "checked"]]
    /\ UNCHANGED <<ledgerVars, chartVars, supplier, inventory, adjustment, purchase_order,
                   po_lines, receipts, sale, customer, store, call>>

\* reserve_quantity updates the loaded row.
WorkerWrite(w) ==
    /\ workers[w].pc = "checked"
    /\ workers' = [workers EXCEPT ![w] =
          [@ EXCEPT !.pc = "written",
                    !.row = reserve_quantity(@, workers[w].quantity)]]
    /\ UNCHANGED <<ledgerVars, chartVars, supplier, inventory, adjustment, purchase_order,
                   po_lines, receipts, sale, customer, store, call>>

\* The session commits: the row is stored and given back.
WorkerCommit(w) ==
    /\ workers[w].pc = "written"
    /\ inventory' = [inventory EXCEPT ![workers[w].product_id] = workers[w].row]
    /\ workers' = [workers EXCEPT ![w] =
          [@ EXCEPT !.pc = "done", !.outcome = "ok"]]
    /\ call' = Call("reserve_quantity", workers[w].product_id,
                     workers[w].quantity, "ok")
    /\ UNCHANGED <<ledgerVars, chartVars, supplier, adjustment, purchase_order,
                   po_lines, receipts, sale, customer, store>>

\* Rows holding 1 to MaxStock units, none reserved, and every worker idle.
WorkersInit ==
    /\ inventory \in
          {[p \in Products |->
               update_available_quantity(
                   [InventoryItem EXCEPT !.quantity_on_hand = on_hand])] :
           on_hand \in 1 .. MaxStock}
    /\ workers = [w \in Workers |-> IdleWorker]
    /\ adjustment = StockAdjustment
    /\ purchase_order = PurchaseOrder
    /\ po_lines = <<>>
    /\ receipts = <<>>
    /\ call = NoStockCall
    /\ supplier = Supplier
    /\ SaleIdle
    /\ LedgerIdle

WorkersNext ==
    \/ \E w \in Workers, p \in Products, q \in 1 .. MaxStock :
          WorkerLoad(w, p, q)
    \/ \E w \in Workers : WorkerCheck(w)
    \/ \E w \in Workers : WorkerWrite(w)
    \/ \E w \in Workers : WorkerCommit(w)

SpecWorkers == WorkersInit /\ [][WorkersNext]_vars

\* ==================================================================== sale
\* Money is counted in hundredths of the currency unit, and a tax rate in
\* hundredths as well (25 is the rate 0.25).  The prices, discounts and
\* payments of the model are multiples of 20 hundredths and its rates are 20,
\* 25 and 120 percent: on these every product and quotient of
\* calculate_totals is a whole number of hundredths.
Hundred == 100
SaleProducts == {1, 2}
SaleQuantities == 1 .. MaxSaleQuantity
Prices == {Hundred}
Payments == {Hundred * k : k \in 1 .. MaxPayment}
RefundAmounts == {Hundred, Hundred * MaxPayment}
DiscountTypes == {"percentage", "fixed_amount", "None"}
DiscountValues == {0, 20, 120}
TaxRates == {0, 25}

\* ---------------------------------------------------------------- SaleItem
sale_calculate_line_total(item) ==
    [item EXCEPT !.line_total = ToFloat(item.quantity) * ToFloat(item.unit_price)
                                - ToFloat(item.discount_amount)]

SaleItem(product_id, quantity, unit_price, discount_amount) ==
    [product_id |-> product_id, quantity |-> quantity,
     unit_price |-> unit_price, discount_amount |-> discount_amount,
     line_total |-> 0]

\* -------------------------------------------------------------------- Sale
\* A new sale: the column defaults, rung up for a customer or for none.
Sale(customer_id, loyalty_points_earned) ==
    [status |-> "draft", customer_id |-> customer_id, sale_items |-> <<>>,
     payments |-> <<>>, subtotal |-> 0, tax_amount |-> 0,
     discount_amount |-> 0, total_amount |-> 0, amount_paid |-> 0,
     amount_due |-> 0, change_amount |-> 0,
     discount_type |-> "None", discount_value |-> 0,
     tax_rate |-> 0, tax_inclusive |-> TRUE, refunded_amount |-> 0,
     loyalty_points_earned |-> loyalty_points_earned]

RECURSIVE SumLines(_)
SumLines(items) ==
    IF items = <<>> THEN 0 ELSE Head(items).line_total + SumLines(Tail(items))

RECURSIVE SumPayments(_)
SumPayments(payments) ==
    IF payments = <<>> THEN 0 ELSE Head(payments) + SumPayments(Tail(payments))

IsPartlyPaid(s) == s.amount_paid > 0

is_paid(s) == s.amount_due <= 0

Min(a, b) == IF a <= b THEN a ELSE b

\* amount * (num / den)
Times(amount, num, den) == (amount * num) \div den

\* A discount value or tax rate of None or 0 is false in a condition.
Truthy(x) == x # 0

TotalsTaxOnSubtotal(s) ==
    LET subtotal == SumLines(s.sale_items)
        discount_amount ==
            IF s.discount_type = "percentage" /\ Truthy(s.discount_value)
            THEN Times(subtotal, s.discount_value, Hundred)
            ELSE IF s.discount_type = "fixed_amount" /\ Truthy(s.discount_value)
            THEN Min(s.discount_value, subtotal)
            ELSE 0
        taxable_amount == subtotal - discount_amount
        tax_amount ==
            IF Truthy(s.tax_rate)
            THEN IF s.tax_inclusive
                 THEN Times(subtotal, s.tax_rate, Hundred + s.tax_rate)
                 ELSE Times(subtotal, s.tax_rate, Hundred)
            ELSE 0
        total_amount ==
            IF Truthy(s.tax_rate) /\ ~s.tax_inclusive
            THEN taxable_amount + tax_amount
            ELSE taxable_amount
    IN  [s EXCEPT !.subtotal = subtotal,
                  !.discount_amount = discount_amount,
                  !.tax_amount = tax_amount,
                  !.total_amount = total_amount,
                  !.amount_due = total_amount - s.amount_paid,
                  !.change_amount = IF s.amount_paid > total_amount
                                    THEN s.amount_paid - total_amount
                                    ELSE 0]

sale_calculate_totals(s) ==
    LET subtotal == SumLines(s.sale_items)
        discount_amount ==
            IF s.discount_type = "percentage" /\ Truthy(s.discount_value)
            THEN Times(subtotal, s.discount_value, Hundred)
            ELSE IF s.discount_type = "fixed_amount" /\ Truthy(s.discount_value)
            THEN Min(s.discount_value, subtotal)
            ELSE 0
        taxable_amount == subtotal - discount_amount
        tax_amount ==
            IF Truthy(s.tax_rate)
            THEN IF s.tax_inclusive
                 THEN Times(taxable_amount, s.tax_rate, Hundred + s.tax_rate)
                 ELSE Times(taxable_amount, s.tax_rate, Hundred)
            ELSE 0
        total_amount ==
            IF Truthy(s.tax_rate) /\ ~s.tax_inclusive
            THEN taxable_amount + tax_amount
            ELSE taxable_amount
    IN  [s EXCEPT !.subtotal = subtotal,
                  !.discount_amount = discount_amount,
                  !.tax_amount = tax_amount,
                  !.total_amount = total_amount,
                  !.amount_due = total_amount - s.amount_paid,
                  !.change_amount = IF s.amount_paid > total_amount
                                    THEN s.amount_paid - total_amount
                                    ELSE 0]

\* ---------------------------------------------------------------- Customer
Customer ==
    [total_spent |-> 0, loyalty_points |-> 0, loyalty_tier |-> "bronze",
     first_purchase_date |-> "None", last_purchase_date |-> "None"]

update_loyalty_tier(c) ==
    [c EXCEPT !.loyalty_tier =
        IF c.loyalty_points >= 10000 THEN "platinum"
        ELSE IF c.loyalty_points >= 5000 THEN "gold"
        ELSE IF c.loyalty_points >= 1000 THEN "silver"
        ELSE "bronze"]

add_loyalty_points(c, points) ==
    update_loyalty_tier([c EXCEPT !.loyalty_points = @ + points])

update_purchase_history(c, sale_amount, sale_date) ==
    [c EXCEPT !.total_spent = @ + sale_amount,
              !.last_purchase_date = sale_date,
              !.first_purchase_date =
                  IF @ = "None" THEN sale_date ELSE @]

\* ----------------------------------------------------------------- Store
Store(allow_negative_inventory) ==
    [allow_negative_inventory |-> allow_negative_inventory]

\* An inventory row holding InitialStock units received at cost 1.
StockedItem ==
    update_available_quantity(
        [InventoryItem EXCEPT !.quantity_on_hand = InitialStock,
                              !.unit_cost = Quotient(1, 1),
                              !.last_cost = Quotient(1, 1)])

\* ---------------------------------------------------------------- SaleInit
SaleInit ==
    /\ inventory = [p \in SaleProducts |-> StockedItem]
    /\ store \in {Store(allow) : allow \in BOOLEAN}
    /\ customer = Customer
    /\ sale \in {Sale(c, points) : c \in {NoId, 1}, points \in {0, 1}}
    /\ adjustment = StockAdjustment
    /\ purchase_order = PurchaseOrder
    /\ po_lines = <<>>
    /\ receipts = <<>>
    /\ call = NoStockCall
    /\ supplier = Supplier
    /\ workers = NoWorkers
    /\ LedgerIdle

\* ------------------------------------------------------------ sale actions
SaleAddItem(product_id, quantity, unit_price) ==
    LET existing == {i \in 1..Len(sale.sale_items) :
                        sale.sale_items[i].product_id = product_id}
    IN  /\ IF existing # {}
           THEN LET i == CHOOSE k \in existing : \A j \in existing : k <= j
                IN  /\ sale.sale_items[i].quantity + quantity <= MaxSaleQuantity
                    /\ sale' = sale_calculate_totals(
                          [sale EXCEPT !.sale_items[i] =
                              sale_calculate_line_total(
                                  [@ EXCEPT !.quantity = @ + quantity])])
           ELSE sale' = sale_calculate_totals(
                    [sale EXCEPT !.sale_items =
                        Append(@, sale_calculate_line_total(
                                      SaleItem(product_id, quantity,
                                               unit_price, 0)))])
        /\ call' = NoStockCall
        /\ UNCHANGED <<ledgerVars, chartVars, supplier, workers, inventory, adjustment, purchase_order,
                       po_lines, receipts, customer, store>>

SaleRemoveItem(i) ==
    /\ sale' = sale_calculate_totals(
          [sale EXCEPT !.sale_items =
              SubSeq(@, 1, i - 1) \o SubSeq(@, i + 1, Len(@))])
    /\ call' = NoStockCall
    /\ UNCHANGED <<ledgerVars, chartVars, supplier, workers, inventory, adjustment, purchase_order,
                   po_lines, receipts, customer, store>>

AddPaymentLast(amount) ==
    /\ Len(sale.payments) < MaxPayments
    /\ LET paid == Append(sale.payments, amount)
       IN  sale' = sale_calculate_totals(
               [sale EXCEPT !.payments = paid, !.amount_paid = amount])
    /\ call' = NoStockCall
    /\ UNCHANGED <<ledgerVars, chartVars, supplier, workers, inventory, adjustment, purchase_order,
                   po_lines, receipts, customer, store>>

AddPayment(amount) ==
    /\ Len(sale.payments) < MaxPayments
    /\ LET paid == Append(sale.payments, amount)
       IN  sale' = sale_calculate_totals(
               [sale EXCEPT !.payments = paid,
                            !.amount_paid = SumPayments(paid)])
    /\ call' = NoStockCall
    /\ UNCHANGED <<ledgerVars, chartVars, supplier, workers, inventory, adjustment, purchase_order,
                   po_lines, receipts, customer, store>>

ApplyDiscount(discount_type, discount_value) ==
    /\ sale' = sale_calculate_totals(
          [sale EXCEPT !.discount_type = discount_type,
                       !.discount_value = discount_value])
    /\ call' = NoStockCall
    /\ UNCHANGED <<ledgerVars, chartVars, supplier, workers, inventory, adjustment, purchase_order,
                   po_lines, receipts, customer, store>>

CompleteSale ==
    IF sale.status # "draft"
    THEN /\ call' = Call("complete_sale", 0, 0, "NotDraft")
         /\ UNCHANGED <<ledgerVars, chartVars, supplier, workers, inventory, adjustment, purchase_order,
                        po_lines, receipts, sale, customer, store>>
    ELSE IF ~is_paid(sale)
    THEN /\ call' = Call("complete_sale", 0, 0, "NotFullyPaid")
         /\ UNCHANGED <<ledgerVars, chartVars, supplier, workers, inventory, adjustment, purchase_order,
                        po_lines, receipts, sale, customer, store>>
    ELSE /\ sale' = [sale EXCEPT !.status = "completed"]
         /\ customer' =
               IF sale.customer_id = NoId THEN customer
               ELSE LET c == update_purchase_history(
                                 customer, ToFloat(sale.total_amount), "now")
                    IN  IF sale.loyalty_points_earned > 0
                        THEN add_loyalty_points(c, sale.loyalty_points_earned)
                        ELSE c
         /\ call' = Call("complete_sale", 0, 0, "ok")
         /\ UNCHANGED <<ledgerVars, chartVars, supplier, workers, inventory, adjustment, purchase_order,
                        po_lines, receipts, store>>

CancelSale ==
    IF sale.status = "completed"
    THEN /\ call' = Call("cancel_sale", 0, 0, "AlreadyCompleted")
         /\ UNCHANGED <<ledgerVars, chartVars, supplier, workers, inventory, adjustment, purchase_order,
                        po_lines, receipts, sale, customer, store>>
    ELSE /\ sale' = [sale EXCEPT !.status = "cancelled"]
         /\ call' = Call("cancel_sale", 0, 0, "ok")
         /\ UNCHANGED <<ledgerVars, chartVars, supplier, workers, inventory, adjustment, purchase_order,
                        po_lines, receipts, customer, store>>

ProcessRefund(refund_amount) ==
    IF sale.status # "completed"
    THEN /\ call' = Call("process_refund", 0, refund_amount, "NotCompleted")
         /\ UNCHANGED <<ledgerVars, chartVars, supplier, workers, inventory, adjustment, purchase_order,
                        po_lines, receipts, sale, customer, store>>
    ELSE IF refund_amount > sale.total_amount - sale.refunded_amount
    THEN /\ call' = Call("process_refund", 0, refund_amount,
                          "ExceedsRefundable")
         /\ UNCHANGED <<ledgerVars, chartVars, supplier, workers, inventory, adjustment, purchase_order,
                        po_lines, receipts, sale, customer, store>>
    ELSE /\ LET refunded == sale.refunded_amount + refund_amount
            IN  sale' = [sale EXCEPT
                    !.refunded_amount = refunded,
                    !.status = IF refunded >= sale.total_amount
                               THEN "refunded" ELSE "partially_refunded"]
         /\ call' = Call("process_refund", 0, refund_amount, "ok")
         /\ UNCHANGED <<ledgerVars, chartVars, supplier, workers, inventory, adjustment, purchase_order,
                        po_lines, receipts, customer, store>>

SaleNext ==
    \/ \E p \in SaleProducts, q \in SaleQuantities, price \in Prices :
          SaleAddItem(p, q, price)
    \/ \E i \in 1..Len(sale.sale_items) : SaleRemoveItem(i)
    \/ \E amount \in Payments : AddPayment(amount)
    \/ CompleteSale
    \/ CancelSale
    \/ \E amount \in RefundAmounts : ProcessRefund(amount)

SpecSale == SaleInit /\ [][SaleNext]_vars

\* The till: a walk-in sale rung up under each tax configuration, with
\* discounts applied and payments taken.
TotalsInit ==
    /\ inventory = [p \in SaleProducts |-> StockedItem]
    /\ store = Store(FALSE)
    /\ customer = Customer
    /\ sale \in {[Sale(NoId, 0) EXCEPT !.tax_rate = rate,
                                       !.tax_inclusive = inclusive] :
                     rate \in TaxRates, inclusive \in BOOLEAN}
    /\ adjustment = StockAdjustment
    /\ purchase_order = PurchaseOrder
    /\ po_lines = <<>>
    /\ receipts = <<>>
    /\ call = NoStockCall
    /\ supplier = Supplier
    /\ workers = NoWorkers
    /\ LedgerIdle

TotalsNext ==
    \/ \E p \in SaleProducts, q \in SaleQuantities, price \in Prices :
          SaleAddItem(p, q, price)
    \/ \E i \in 1..Len(sale.sale_items) : SaleRemoveItem(i)
    \/ \E type \in DiscountTypes, value \in DiscountValues :
          ApplyDiscount(type, value)
    \/ \E amount \in Payments : AddPayment(amount)

SpecTotals == TotalsInit /\ [][TotalsNext]_vars

\* ================================================================ claims
Txns == 1..Len(transactions)

\* What the ledger rule gives for account a from a list of entries: debits
\* less credits for an asset or expense account, credits less debits for a
\* liability, equity or revenue account.
RECURSIVE RuleEffect(_, _)
RuleEffect(entries, a) ==
    IF entries = <<>> THEN 0
    ELSE LET e == Head(entries)
             here == IF e.account_id # a THEN 0
                     ELSE IF account_type[a] \in {"asset", "expense"}
                          THEN e.debit_amount - e.credit_amount
                          ELSE e.credit_amount - e.debit_amount
         IN  here + RuleEffect(Tail(entries), a)

\* The rule over the entries of every posted transaction up to number n.
RECURSIVE PostedEffect(_, _)
PostedEffect(n, a) ==
    IF n = 0 THEN 0
    ELSE (IF transactions[n].status = "posted"
          THEN RuleEffect(transactions[n].entries, a) ELSE 0)
         + PostedEffect(n - 1, a)

PostOk(t) == Outcome("post", t, "ok")
ReverseOk(t) == Outcome("reverse", t, "ok")

HasReconciledEntry(txn) ==
    \E i \in 1..Len(txn.entries) : txn.entries[i].is_reconciled

IsReversed(t) == \E i \in Txns : transactions[i].notes = t

ValidEntry(e) ==
    /\ e.debit_amount >= 0
    /\ e.credit_amount >= 0
    /\ (e.debit_amount = 0) # (e.credit_amount = 0)

\* C1: every posted transaction has the sum of its entries' debits equal to
\* the sum of its entries' credits, exactly.
C1_PostedIsBalanced ==
    \A t \in Txns :
        transactions[t].status = "posted" =>
            SumDebit(transactions[t].entries) = SumCredit(transactions[t].entries)

\* C2: every account's current balance is its opening balance plus the
\* signed sum of the entries of the posted transactions against it,
\* recomputed from the entries.
C2_BalanceIsSumOfPosted ==
    \A a \in Accounts :
        current_balance[a] =
            opening_balance[a] + PostedEffect(Len(transactions), a)

\* C3: a successful reverse of T creates T' with every entry's debit and
\* credit swapped, and leaves every account with the balance it had before T
\* was posted: the balance less T's effect on it.
C3_ReversalLaw ==
    [][\A t \in Txns :
          result' = ReverseOk(t) =>
              LET old == transactions[t].entries
                  new == transactions'[Len(transactions')].entries
              IN  /\ Len(new) = Len(old)
                  /\ \A i \in 1..Len(old) :
                        /\ new[i].account_id = old[i].account_id
                        /\ new[i].debit_amount = old[i].credit_amount
                        /\ new[i].credit_amount = old[i].debit_amount
                  /\ \A a \in Accounts :
                        current_balance'[a] =
                            current_balance[a] - RuleEffect(old, a)]_ledgerVars

\* C4: a successful post changes every account's balance by the rule over
\* the transaction's entries (and no other balance), sets the status to
\* posted and records the acting user.
C4_PostAppliesRule ==
    [][\A t \in Txns :
          result' = PostOk(t) =>
              /\ \A a \in Accounts :
                    current_balance'[a] =
                        current_balance[a]
                        + RuleEffect(transactions[t].entries, a)
              /\ transactions'[t].status = "posted"
              /\ transactions'[t].posted_by_user_id \in Users]_ledgerVars

\* C5: post on a draft whose total debit differs from its total credit
\* fails with Unbalanced, the status stays draft and no balance changes.
C5_UnbalancedIsRefused ==
    [][\A t \in Txns :
          (/\ result'.op = "post"
           /\ result'.txn = t
           /\ transactions[t].status = "draft"
           /\ transactions[t].total_debit # transactions[t].total_credit)
          => /\ result'.outcome = "Unbalanced"
             /\ transactions'[t].status = "draft"
             /\ current_balance' = current_balance]_ledgerVars

\* C6: a status changes only from draft to posted, and only by a successful
\* post; a successful post is made on a draft only (so a transaction is
\* posted once); post on anything but a draft fails with NotDraft and
\* changes neither a balance nor a transaction.
C6_StatusOneWay ==
    [][/\ Len(transactions') >= Len(transactions)
       /\ \A t \in Txns :
             /\ transactions'[t].status # transactions[t].status =>
                   /\ transactions[t].status = "draft"
                   /\ transactions'[t].status = "posted"
                   /\ result' = PostOk(t)
             /\ result' = PostOk(t) =>
                   /\ transactions[t].status = "draft"
                   /\ transactions'[t].status = "posted"
             /\ (result'.op = "post" /\ result'.txn = t
                 /\ transactions[t].status # "draft") =>
                   /\ result'.outcome = "NotDraft"
                   /\ current_balance' = current_balance
                   /\ transactions' = transactions]_ledgerVars

\* A transaction that was posted by post, moved a balance and has been
\* reversed, and on which a further post has just been refused.
C6_Witness ==
    /\ result.op = "post"
    /\ result.outcome = "NotDraft"
    /\ result.txn \in Txns
    /\ IsReversed(result.txn)
    /\ transactions[result.txn].status = "posted"
    /\ transactions[result.txn].posted_by_user_id \in Users
    /\ transactions[result.txn].entries # <<>>
    /\ \E a \in Accounts : current_balance[a] # opening_balance[a]

\* C7: once a transaction has been reversed, every later reverse of it
\* fails and creates no further reversal transaction.
C7_ReversedOnce ==
    [][\A t \in Txns :
          (IsReversed(t) /\ result'.op = "reverse" /\ result'.txn = t)
          => /\ result'.outcome = "CannotReverse"
             /\ transactions' = transactions]_ledgerVars

\* C8: reverse fails on a transaction that is not posted, and on one that
\* has a reconciled entry; no reversal is created and nothing is changed.
C8_ReverseRefusals ==
    [][\A t \in Txns :
          (/\ result'.op = "reverse"
           /\ result'.txn = t
           /\ \/ transactions[t].status # "posted"
              \/ HasReconciledEntry(transactions[t]))
          => /\ result'.outcome = "CannotReverse"
             /\ transactions' = transactions
             /\ current_balance' = current_balance]_ledgerVars

\* C9: add_entry appends a line only if exactly one of debit and credit is
\* nonzero and none is negative, and then sets the totals to the sums of the
\* columns; so every entry of every transaction has exactly one of debit and
\* credit nonzero.
C9_EntriesAreValid ==
    \A t \in Txns :
        /\ \A i \in 1..Len(transactions[t].entries) :
              ValidEntry(transactions[t].entries[i])
        /\ transactions[t].total_debit = SumDebit(transactions[t].entries)
        /\ transactions[t].total_credit = SumCredit(transactions[t].entries)

\* C10: balances change only together with the status change of a post
\* that has applied all the entries of its transaction: no step leaves a
\* balance changed and the transaction not posted.
C10_PostIsAtomic ==
    [][current_balance' # current_balance =>
          \E t \in Txns :
              /\ transactions[t].status = "draft"
              /\ transactions'[t].status = "posted"
              /\ PostEntries(current_balance, transactions[t].entries).ok
              /\ current_balance' =
                    PostEntries(current_balance, transactions[t].entries).bal
      ]_ledgerVars

\* ------------------------------------------------- claims about the stock
Items == DOMAIN inventory
Receipts == 1..Len(receipts)

C12_ReservedWithinOnHand ==
    \A p \in Items :
        /\ 0 <= inventory[p].quantity_reserved
        /\ inventory[p].quantity_reserved <= inventory[p].quantity_on_hand

\* C15: reserve fails with InsufficientAvailable when the quantity exceeds
\* quantity_available, leaving on-hand, reserved and available unchanged;
\* otherwise it increases quantity_reserved by exactly the quantity, leaves
\* quantity_on_hand unchanged and recomputes available.
C15_Reserve ==
    [][call'.op = "reserve_quantity" =>
         LET p == call'.target
             quantity == call'.quantity
             old == inventory[p]
             new == inventory'[p]
         IN  IF quantity > old.quantity_available
             THEN /\ call'.outcome = "InsufficientAvailable"
                  /\ inventory' = inventory
             ELSE /\ call'.outcome = "ok"
                  /\ new.quantity_reserved = old.quantity_reserved + quantity
                  /\ new.quantity_on_hand = old.quantity_on_hand
                  /\ new.quantity_available =
                        new.quantity_on_hand - new.quantity_reserved
                  /\ \A o \in Items \ {p} : inventory'[o] = inventory[o]]_vars

\* A unit of received stock has just been reserved.
C15_Witness ==
    /\ call.op = "reserve_quantity"
    /\ call.outcome = "ok"
    /\ call.quantity > 0
    /\ inventory[call.target].quantity_reserved = call.quantity
    /\ inventory[call.target].quantity_on_hand > 0

\* C16: release fails with OverRelease when the quantity exceeds
\* quantity_reserved, leaving the item unchanged; otherwise it decreases
\* quantity_reserved by exactly the quantity, so that reserve(q) followed by
\* release(q) restores reserved and available to their values before the
\* reserve.
C16_Release ==
    [][call'.op = "release_reservation" =>
         LET p == call'.target
             quantity == call'.quantity
             old == inventory[p]
             new == inventory'[p]
         IN  /\ IF quantity > old.quantity_reserved
                THEN /\ call'.outcome = "OverRelease"
                     /\ inventory' = inventory
                ELSE /\ call'.outcome = "ok"
                     /\ new.quantity_reserved = old.quantity_reserved - quantity
             /\ call = Call("reserve_quantity", p, quantity, "ok") =>
                   /\ call'.outcome = "ok"
                   /\ new.quantity_reserved = old.quantity_reserved - quantity
                   /\ new.quantity_available = old.quantity_available + quantity
      ]_vars


\* --------------------------------------------- claims about purchasing
\* The receipt item a complete_receipt call works on, the inventory row it
\* is received into and the row's cost before the call.
ReceiptItem(r) == receipts[r].receipt_items[1]
ReceiptProduct(r) == po_lines[ReceiptItem(r).po_item].product_id
ReceiptCompleted == call'.op = "complete_receipt" /\ call'.outcome = "ok"

\* unit_cost * quantity = value, for a unit cost kept as a quotient.
CostTimes(cost, quantity, value) == cost.num * quantity = value * cost.den

C19_ReceivedWithinOrdered ==
    \A id \in purchase_order.po_items :
        po_lines[id].quantity_received <= po_lines[id].quantity_ordered

SaleLines == 1..Len(sale.sale_items)

\* C17: a successful complete sets the sale's status to completed, decreases
\* the on-hand quantity of each line's inventory item in the sale's store by
\* the line's quantity, and increases the linked customer's lifetime total
\* by the sale total.
C17_CompleteIssuesStock ==
    [][call'.op = "complete_sale" /\ call'.outcome = "ok" =>
         /\ sale'.status = "completed"
         /\ \A i \in SaleLines :
               LET p == sale.sale_items[i].product_id
               IN  inventory'[p].quantity_on_hand =
                      inventory[p].quantity_on_hand - sale.sale_items[i].quantity
         /\ sale.customer_id # NoId =>
               customer'.total_spent = customer.total_spent + sale.total_amount
      ]_vars

\* C18: issuing more units than are on hand from an inventory item whose
\* store disallows negative inventory fails with InsufficientOnHand and
\* leaves on_hand unchanged; for such stores quantity_on_hand never becomes
\* negative through a sale.
C18_NoIssueBeyondOnHand ==
    [][/\ call'.op = "complete_sale"
       /\ ~store.allow_negative_inventory
       => /\ \A p \in Items : inventory'[p].quantity_on_hand >= 0
          /\ /\ sale.status = "draft"
             /\ is_paid(sale)
             /\ \E i \in SaleLines :
                   sale.sale_items[i].quantity
                      > inventory[sale.sale_items[i].product_id].quantity_on_hand
             => /\ call'.outcome = "InsufficientOnHand"
                /\ inventory' = inventory
                /\ sale' = sale
      ]_vars

\* ---------------------------------------------------------------------------
\* C23: apply takes effect once.  On an approved adjustment it sets every
\* item's row to the counted quantity, returns one movement for each item and
\* leaves the status applied; applied is never left; and apply on an
\* adjustment that is not approved, an applied one included, raises, returns
\* no movement and changes neither the inventory nor the adjustment.
C23_ApplyOnce ==
    [][/\ (adjustment.status = "applied" => adjustment'.status = "applied")
       /\ (call'.op = "apply" =>
              IF adjustment.status = "approved"
              THEN /\ call'.outcome = "ok"
                   /\ adjustment'.status = "applied"
                   /\ Len(call'.movements) = Len(adjustment.items)
                   /\ \A i \in 1..Len(adjustment.items) :
                          /\ call'.movements[i].quantity_after =
                                Snapshot(adjustment.items[i].new_quantity)
                          /\ (i = Len(adjustment.items) =>
                                 inventory'[adjustment.items[i].inventory_item]
                                     .quantity_on_hand
                                 = adjustment.items[i].new_quantity)
              ELSE /\ call'.outcome # "ok"
                   /\ call'.movements = <<>>
                   /\ inventory' = inventory
                   /\ adjustment' = adjustment)]_vars

\* An applied adjustment has just been applied again, and the call raised.
C23_Witness ==
    /\ call.op = "apply"
    /\ call.outcome = "CannotApply"
    /\ adjustment.status = "applied"

\* C24: the status of a stock adjustment moves only from draft to approved,
\* by an approve on a draft with at least one line, and from approved to
\* applied, by an apply; an approve or apply called in any other state
\* raises and changes nothing; so an approved or applied adjustment has a
\* line, and apply changes the inventory only from approved.
C24_AdjustmentStatusMachine ==
    [][/\ (adjustment'.status # adjustment.status =>
              \/ /\ adjustment.status = "draft"
                 /\ adjustment'.status = "approved"
                 /\ call'.op = "approve"
                 /\ Len(adjustment.items) > 0
              \/ /\ adjustment.status = "approved"
                 /\ adjustment'.status = "applied"
                 /\ call'.op = "apply")
       /\ (call'.op = "approve" =>
              IF adjustment.status = "draft" /\ Len(adjustment.items) > 0
              THEN call'.outcome = "ok" /\ adjustment'.status = "approved"
              ELSE /\ call'.outcome # "ok"
                   /\ adjustment' = adjustment
                   /\ inventory' = inventory)
       /\ (call'.op = "apply" /\ adjustment.status # "approved" =>
              /\ call'.outcome # "ok"
              /\ adjustment' = adjustment
              /\ inventory' = inventory)
       /\ (adjustment'.status \in {"approved", "applied"} =>
              Len(adjustment'.items) > 0)]_vars

\* An adjustment has gone through approval and has just been applied,
\* changing the quantity on hand of its item.
C24_Witness ==
    /\ call.op = "apply"
    /\ call.outcome = "ok"
    /\ adjustment.status = "applied"
    /\ \E i \in 1..Len(call.movements) :
          call.movements[i].quantity_before # call.movements[i].quantity_after

PoTransitions ==
    {<<"draft", "pending">>, <<"draft", "approved">>,
     <<"pending", "approved">>, <<"approved", "sent">>,
     <<"sent", "partially_received">>, <<"sent", "received">>,
     <<"partially_received", "received">>, <<"received", "completed">>,
     <<"draft", "cancelled">>, <<"pending", "cancelled">>,
     <<"approved", "cancelled">>, <<"sent", "cancelled">>,
     <<"partially_received", "cancelled">>}

C22_PoStatusMachine ==
    [][/\ (purchase_order'.status # purchase_order.status =>
              <<purchase_order.status, purchase_order'.status>>
                  \in PoTransitions)
       /\ (call'.op = "cancel"
              /\ purchase_order.status \in {"received", "completed"} =>
              call'.outcome # "ok" /\ purchase_order' = purchase_order)
       /\ (call'.op = "complete" /\ call'.outcome = "ok" =>
              purchase_order.status = "received")]_vars

\* ---------------------------------------------------------------------------
\* C25: the totals of the sale are the function of its lines, discount and
\* tax configuration the claim gives: subtotal is the sum of the line totals;
\* the discount is subtotal * value / 100 for a percentage, min(value,
\* subtotal) for a fixed amount, else 0; with a tax rate the tax is
\* taxable * rate and the total taxable + tax when exclusive, the tax is
\* taxable * rate / (1 + rate) and the total taxable when inclusive; without
\* a rate the tax is 0 and the total is the taxable amount.
C25_TotalsFollowConfiguration ==
    LET taxable == sale.subtotal - sale.discount_amount
    IN  /\ sale.subtotal = SumLines(sale.sale_items)
        /\ (sale.discount_type = "percentage" =>
               sale.discount_amount * Hundred
               = sale.subtotal * sale.discount_value)
        /\ (sale.discount_type = "fixed_amount" =>
               sale.discount_amount = Min(sale.discount_value, sale.subtotal))
        /\ (sale.discount_type \notin {"percentage", "fixed_amount"} =>
               sale.discount_amount = 0)
        /\ (sale.tax_rate # 0 /\ ~sale.tax_inclusive =>
               /\ sale.tax_amount * Hundred = taxable * sale.tax_rate
               /\ sale.total_amount = taxable + sale.tax_amount)
        /\ (sale.tax_rate # 0 /\ sale.tax_inclusive =>
               /\ sale.tax_amount * (Hundred + sale.tax_rate)
                  = taxable * sale.tax_rate
               /\ sale.total_amount = taxable)
        /\ (sale.tax_rate = 0 =>
               sale.tax_amount = 0 /\ sale.total_amount = taxable)

\* Two lines under a percentage discount and an exclusive tax rate.
C25_Witness ==
    /\ Len(sale.sale_items) = 2
    /\ sale.discount_type = "percentage"
    /\ sale.discount_amount > 0
    /\ sale.tax_rate # 0
    /\ ~sale.tax_inclusive
    /\ sale.tax_amount > 0

\* C26: after every add_item, remove_item, apply_discount and add_payment,
\* amount_paid is the sum of the payments, amount_due is total_amount -
\* amount_paid and change_amount is max(0, amount_paid - total_amount).
C26_PaidDueChange ==
    /\ sale.amount_paid = SumPayments(sale.payments)
    /\ sale.amount_due = sale.total_amount - sale.amount_paid
    /\ sale.change_amount =
          IF sale.amount_paid - sale.total_amount > 0
          THEN sale.amount_paid - sale.total_amount ELSE 0

\* Two payments that overpay a discounted sale.
C26_Witness ==
    /\ Len(sale.payments) = 2
    /\ Len(sale.sale_items) > 0
    /\ sale.discount_amount > 0
    /\ sale.change_amount > 0

\* ---------------------------------------------------------------------------
\* C27: complete_sale raises NotDraft unless the sale is a draft and
\* NotFullyPaid unless amount_due <= 0, and a complete_sale that raises
\* leaves the sale, the customer and the inventory as they were.
C27_CompleteRefusals ==
    [][call'.op = "complete_sale" =>
          /\ (sale.status # "draft" => call'.outcome = "NotDraft")
          /\ (sale.status = "draft" /\ sale.amount_due > 0 =>
                 call'.outcome = "NotFullyPaid")
          /\ (call'.outcome # "ok" =>
                 /\ sale' = sale
                 /\ customer' = customer
                 /\ inventory' = inventory)]_vars

\* A customer's sale, with lines and a payment short of the total, has just
\* been refused completion.
C27_Witness ==
    /\ call.op = "complete_sale"
    /\ call.outcome = "NotFullyPaid"
    /\ sale.customer_id # NoId
    /\ sale.amount_paid > 0
    /\ sale.status = "draft"

\* C28: the status of the sale changes only draft -> completed, completed ->
\* refunded, completed -> partially_refunded, draft -> cancelled and pending
\* -> cancelled; cancel_sale raises on a completed sale; a refunded,
\* partially_refunded or cancelled sale keeps its status.
SaleTransitions ==
    {<<"draft", "completed">>, <<"completed", "refunded">>,
     <<"completed", "partially_refunded">>, <<"draft", "cancelled">>,
     <<"pending", "cancelled">>}

C28_SaleStatusMachine ==
    [][/\ (sale'.status # sale.status =>
              <<sale.status, sale'.status>> \in SaleTransitions)
       /\ (call'.op = "cancel_sale" /\ sale.status = "completed" =>
              call'.outcome = "AlreadyCompleted" /\ sale' = sale)]_vars

\* C29: process_refund raises NotCompleted unless the sale is completed and
\* ExceedsRefundable if the amount is above total_amount - refunded_amount,
\* leaving refunded_amount and status as they were; otherwise
\* refunded_amount grows by the amount and the status is refunded when it
\* has reached the total, else partially_refunded; and 0 <= refunded_amount
\* <= total_amount in every state.
C29_RefundWithinTotal ==
    [][/\ (call'.op = "process_refund" =>
              IF sale.status # "completed"
              THEN /\ call'.outcome = "NotCompleted"
                   /\ sale' = sale
              ELSE IF call'.quantity > sale.total_amount - sale.refunded_amount
              THEN /\ call'.outcome = "ExceedsRefundable"
                   /\ sale' = sale
              ELSE /\ call'.outcome = "ok"
                   /\ sale'.refunded_amount
                      = sale.refunded_amount + call'.quantity
                   /\ sale'.status =
                         IF sale'.refunded_amount >= sale.total_amount
                         THEN "refunded" ELSE "partially_refunded")
       /\ 0 <= sale'.refunded_amount
       /\ sale'.refunded_amount <= sale'.total_amount]_vars

\* ---------------------------------------------------------------------------
\* C30: under concurrent workers reserving from the same inventory row, no
\* reservation is lost and the row never holds more reserved than on hand:
\* the reserved quantity is the sum of the quantities of the requests that
\* succeeded, it is at most the quantity on hand, and so of the requests for
\* one unit from a row with one unit available at most one succeeds.
RECURSIVE Granted(_, _)
Granted(ws, p) ==
    IF ws = {} THEN 0
    ELSE LET w == CHOOSE x \in ws : TRUE
         IN  (IF workers[w].product_id = p /\ workers[w].outcome = "ok"
              THEN workers[w].quantity ELSE 0)
             + Granted(ws \ {w}, p)

C38_CompletedStaysPaid ==
    sale.status = "completed" =>
        /\ sale.amount_due <= 0
        /\ (sale.customer_id # NoId =>
               customer.total_spent = sale.total_amount)

\* C39: with line totals that are not negative, after any add_item,
\* remove_item and apply_discount, 0 <= discount_amount <= subtotal and
\* total_amount >= 0.
C39_DiscountWithinSubtotal ==
    (\A i \in SaleLines : sale.sale_items[i].line_total >= 0) =>
        /\ 0 <= sale.discount_amount
        /\ sale.discount_amount <= sale.subtotal
        /\ sale.total_amount >= 0

\* ---------------------------------------------------------------------------
\* C34: adjust_quantity sets the quantity on hand to new_quantity, recomputes
\* the available quantity and returns one movement of type adjustment whose
\* quantity is new_quantity less the previous quantity on hand, with the
\* previous quantity on hand as its before snapshot and new_quantity as its
\* after snapshot.
C34_AdjustReturnsSnapshots ==
    [][call'.op = "adjust_quantity" =>
          LET p == call'.target
              m == call'.movements[1]
          IN  /\ inventory'[p].quantity_on_hand = call'.quantity
              /\ inventory'[p].quantity_available
                 = call'.quantity - inventory[p].quantity_reserved
              /\ Len(call'.movements) = 1
              /\ m.movement_type = "adjustment"
              /\ m.quantity = call'.quantity - inventory[p].quantity_on_hand
              /\ m.quantity_before = Snapshot(inventory[p].quantity_on_hand)
              /\ m.quantity_after = Snapshot(call'.quantity)]_vars

\* C35: every movement returned by StockAdjustment.apply or by
\* complete_receipt carries both snapshots and a quantity equal to
\* quantity_after - quantity_before; the first movement's before snapshot is
\* its row's quantity on hand before the call and the last movement's after
\* snapshot is its row's quantity on hand after the call.
C35_MovementsAreConsistent ==
    [][call'.op \in {"apply", "complete_receipt"} /\ call'.movements # <<>> =>
          LET ms == call'.movements
          IN  /\ \A i \in 1..Len(ms) :
                     /\ ms[i].quantity_before # NoSnapshot
                     /\ ms[i].quantity_after # NoSnapshot
                     /\ ms[i].quantity
                        = ms[i].quantity_after[1] - ms[i].quantity_before[1]
              /\ ms[1].quantity_before
                 = Snapshot(inventory[ms[1].inventory_item].quantity_on_hand)
              /\ ms[Len(ms)].quantity_after
                 = Snapshot(inventory'[ms[Len(ms)].inventory_item]
                                .quantity_on_hand)]_vars

C37_CountedOnce ==
    [][call'.op = "complete" /\ call'.outcome = "ok" =>
          /\ purchase_order.po_items # {}
          /\ purchase_order.status \notin {"cancelled", "completed"}
          /\ supplier'.total_purchased
             = supplier.total_purchased + purchase_order.total_amount
          /\ supplier'.current_balance
             = supplier.current_balance + purchase_order.total_amount]_vars


\* ---------------------------------------------------------------------------
\* C32: the balance of a system account is never mutated by direct posting:
\* a call of post on a transaction with an entry against an account marked
\* is_system_account leaves that account's current_balance as it was.
C32_SystemBalanceUntouched ==
    [][result'.op = "post"
       => \A a \in Accounts :
             accounts[a].is_system_account
             => current_balance'[a] = current_balance[a]]_vars

PostedBy(t) ==
    {w \in Posters : posters[w].txn = t /\ posters[w].outcome = "ok"}

====
